---- MODULE Spec2Model ----
(***************************************************************************)
(* Model of src/src/coefficients.rs: Coefficients::<f32>::from_params and  *)
(* Coefficients::<f64>::from_params, the derivation of normalized biquad   *)
(* coefficients from (filter type, fs, f0, Q).                             *)
(*                                                                         *)
(* Floating point values are modelled as extended rationals <<n, d>>:      *)
(*   d > 0       the finite value n/d, in lowest terms                     *)
(*   <<1, 0>>    +infinity        <<-1, 0>>   -infinity                    *)
(*   <<0, 0>>    NaN                                                       *)
(* The arithmetic operators follow IEEE-754 on the special values          *)
(* (x/0, 0/0, inf-inf, inf/inf, 0*inf, NaN propagation, comparisons with   *)
(* NaN false).  Rounding, the finite exponent range and the sign of zero   *)
(* are not modelled: a finite result is the exact rational.                *)
(***************************************************************************)
EXTENDS Integers, Sequences, FiniteSets, TLC

(***************************************************************************)
(* Bounds of the input space.                                              *)
(***************************************************************************)
\* sampling frequencies are 1..MaxFs (Hz)
MaxFs == 5
\* q_value ranges over k/2 for k in -1..MaxQHalves
MaxQHalves == 3

(***************************************************************************)
(* Extended rational arithmetic (the f32 / f64 operators of the source).   *)
(***************************************************************************)
Abs(i) == IF i < 0 THEN -i ELSE i

Sgn(i) == IF i < 0 THEN -1 ELSE IF i > 0 THEN 1 ELSE 0

RECURSIVE Gcd(_, _)
Gcd(a, b) == IF b = 0 THEN a ELSE Gcd(b, a % b)

\* the value n/d, d possibly negative or zero, in canonical form
Mk(n, d) ==
    IF d = 0 THEN <<Sgn(n), 0>>
    ELSE LET g == Gcd(Abs(n), Abs(d))
             s == Sgn(d)
         IN  <<(s * n) \div g, Abs(d) \div g>>

\* a literal with an integral value, e.g. 2.0
R(i) == <<i, 1>>

NaN == <<0, 0>>

PosInf == <<1, 0>>

NegInf == <<-1, 0>>

IsNaN(x) == x = NaN

IsFinite(x) == x[2] > 0

IsInf(x) == x[2] = 0 /\ x[1] # 0

\* unary minus
Neg(x) == <<-x[1], x[2]>>

\* x + y
Add(x, y) ==
    IF IsNaN(x) \/ IsNaN(y) THEN NaN
    ELSE IF IsInf(x) /\ IsInf(y) THEN (IF x = y THEN x ELSE NaN)
    ELSE IF IsInf(x) THEN x
    ELSE IF IsInf(y) THEN y
    ELSE LET g == Gcd(x[2], y[2])
         IN  Mk(x[1] * (y[2] \div g) + y[1] * (x[2] \div g), (x[2] \div g) * y[2])

\* x - y
Sub(x, y) == Add(x, Neg(y))

\* x * y
Mul(x, y) ==
    IF IsNaN(x) \/ IsNaN(y) THEN NaN
    ELSE IF IsInf(x) \/ IsInf(y) THEN <<Sgn(x[1]) * Sgn(y[1]), 0>>
    ELSE LET g1 == Gcd(Abs(x[1]), y[2])
             g2 == Gcd(Abs(y[1]), x[2])
         IN  Mk((x[1] \div g1) * (y[1] \div g2), (x[2] \div g2) * (y[2] \div g1))

\* x / y
Div(x, y) ==
    IF IsNaN(x) \/ IsNaN(y) THEN NaN
    ELSE IF IsInf(y) THEN (IF IsInf(x) THEN NaN ELSE R(0))
    ELSE IF y[1] = 0 THEN <<Sgn(x[1]), 0>>
    ELSE IF IsInf(x) THEN <<Sgn(x[1]) * Sgn(y[1]), 0>>
    ELSE LET g1 == Gcd(Abs(x[1]), Abs(y[1]))
             g2 == Gcd(x[2], y[2])
         IN  Mk((x[1] \div g1) * (y[2] \div g2) * Sgn(y[1]),
                (x[2] \div g2) * (Abs(y[1]) \div g1))

\* x < y
Lt(x, y) ==
    IF IsNaN(x) \/ IsNaN(y) THEN FALSE
    ELSE IF IsInf(x) THEN x = NegInf /\ y # NegInf
    ELSE IF IsInf(y) THEN y = PosInf
    ELSE x[1] * y[2] < y[1] * x[2]

\* x > y
Gt(x, y) == Lt(y, x)

\* x <= y
Le(x, y) == ~IsNaN(x) /\ ~IsNaN(y) /\ ~Lt(y, x)

(***************************************************************************)
(* The libm primitives, as functions shared by both precisions.            *)
(***************************************************************************)
\* core::f32::consts::PI / core::f64::consts::PI: a rational close to pi
PI == <<355, 113>>

\* libm's tan at the representable value nearest pi/2 is finite and huge
TanNearPole == R(1000000)

\* sin(t * pi) for 0 <= t <= 1, by Bhaskara's rational approximation
\* 16 t (1 - t) / (5 - 4 t (1 - t)); exact at t = 0, 1/6, 1/2, 5/6, 1
SinTurn(t) ==
    LET p == Mul(t, Sub(R(1), t))
    IN  Div(Mul(R(16), p), Sub(R(5), Mul(R(4), p)))

\* sinf / sin, on [0, PI]
Sin(x) ==
    IF ~IsFinite(x) THEN NaN
    ELSE LET t == Div(x, PI)
         IN  CASE Le(R(0), t) /\ Le(t, R(1)) -> SinTurn(t)

\* cosf / cos, on [0, PI]
Cos(x) ==
    IF ~IsFinite(x) THEN NaN
    ELSE LET t == Div(x, PI)
         IN  CASE Le(R(0), t) /\ Le(t, <<1, 2>>) -> SinTurn(Add(t, <<1, 2>>))
               [] Lt(<<1, 2>>, t) /\ Le(t, R(1)) -> Neg(SinTurn(Sub(t, <<1, 2>>)))

\* tanf / tan, on [0, PI/2]
Tan(x) ==
    IF ~IsFinite(x) THEN NaN
    ELSE IF Cos(x) = R(0) THEN TanNearPole
    ELSE Div(Sin(x), Cos(x))

RECURSIVE IntPow(_, _)
IntPow(b, k) == IF k = 0 THEN R(1) ELSE Mul(b, IntPow(b, k - 1))

\* powf / pow, for the integral exponents the modelled gains produce
Pow(b, e) ==
    IF IsNaN(b) \/ IsNaN(e) THEN NaN
    ELSE CASE IsFinite(e) /\ e[2] = 1 /\ e[1] >= 0 -> IntPow(b, e[1])
           [] IsFinite(e) /\ e[2] = 1 /\ e[1] < 0 -> Div(R(1), IntPow(b, -e[1]))

RECURSIVE ISqrtFrom(_, _)
ISqrtFrom(n, r) == IF (r + 1) * (r + 1) > n THEN r ELSE ISqrtFrom(n, r + 1)

ISqrt(n) == ISqrtFrom(n, 0)

\* sqrtf / sqrt, for the rational squares the modelled gains produce
Sqrt(x) ==
    IF IsNaN(x) THEN NaN
    ELSE IF x = PosInf THEN PosInf
    ELSE IF x[1] < 0 THEN NaN
    ELSE CASE ISqrt(x[1]) * ISqrt(x[1]) = x[1] /\ ISqrt(x[2]) * ISqrt(x[2]) = x[2] ->
                <<ISqrt(x[1]), ISqrt(x[2])>>

(***************************************************************************)
(* Data model: Type<DBGain>, Coefficients<T>, Result<Coefficients, Errors> *)
(***************************************************************************)
\* the variants of Type that carry no payload
PlainKinds == {"SinglePoleLowPassApprox", "SinglePoleLowPass", "LowPass", "HighPass",
               "BandPass", "Notch", "AllPass"}

\* the variants of Type that carry a gain in decibels
GainKinds == {"LowShelf", "HighShelf", "PeakingEQ"}

\* the struct Coefficients { a1, a2, b0, b1, b2 }
Coefficients(a1, a2, b0, b1, b2) == [a1 |-> a1, a2 |-> a2, b0 |-> b0, b1 |-> b1, b2 |-> b2]

\* Result::Ok(coefficients)
Ok(c) == [tag |-> "Ok", coeffs |-> c]

\* Result::Err(error)
Err(e) == [tag |-> "Err", err |-> e]

(***************************************************************************)
(* impl Coefficients<f32>                                                   *)
(***************************************************************************)
\* Validate_f32 with the Q check ahead of the Nyquist check
Validate_f32_QFirst(fs, f0, q_value) ==
    IF Lt(q_value, R(0)) THEN "NegativeQ"
    ELSE IF Gt(Mul(R(2), f0), fs) THEN "OutsideNyquist"
    ELSE "Valid"

\* Validate_f32 rejecting q_value <= 0.0 instead of q_value < 0.0
Validate_f32_RejectZeroQ(fs, f0, q_value) ==
    IF Gt(Mul(R(2), f0), fs) THEN "OutsideNyquist"
    ELSE IF Le(q_value, R(0)) THEN "NegativeQ"
    ELSE "Valid"

\* the two validation checks of from_params, in source order
Validate_f32(fs, f0, q_value) ==
    IF Gt(Mul(R(2), f0), fs) THEN "OutsideNyquist"
    ELSE IF Lt(q_value, R(0)) THEN "NegativeQ"
    ELSE "Valid"

\* let omega = 2.0 * PI * f0.hz() / fs.hz()
Omega_f32(fs, f0) == Div(Mul(Mul(R(2), PI), f0), fs)

\* Type::SinglePoleLowPassApprox
SinglePoleLowPassApprox_f32(omega) ==
    LET alpha == Div(omega, Add(omega, R(1)))
    IN  Coefficients(Sub(alpha, R(1)), R(0), alpha, R(0), R(0))

\* Type::SinglePoleLowPass
SinglePoleLowPass_f32(omega) ==
    LET omega_t == Tan(Div(omega, R(2)))
        a0 == Add(R(1), omega_t)
    IN  Coefficients(Div(Sub(omega_t, R(1)), a0), R(0), Div(omega_t, a0), Div(omega_t, a0), R(0))

\* Type::LowPass
LowPass_f32(omega, q_value) ==
    LET
        omega_s == Sin(omega)
        omega_c == Cos(omega)
        alpha == Div(omega_s, Mul(R(2), q_value))
        b0 == Mul(Sub(R(1), omega_c), <<1, 2>>)
        b1 == Sub(R(1), omega_c)
        b2 == Mul(Sub(R(1), omega_c), <<1, 2>>)
        a0 == Add(R(1), alpha)
        a1 == Mul(R(-2), omega_c)
        a2 == Sub(R(1), alpha)
    IN
        Coefficients(Div(a1, a0), Div(a2, a0), Div(b0, a0), Div(b1, a0), Div(b2, a0))

\* Type::HighPass
HighPass_f32(omega, q_value) ==
    LET
        omega_s == Sin(omega)
        omega_c == Cos(omega)
        alpha == Div(omega_s, Mul(R(2), q_value))
        b0 == Mul(Add(R(1), omega_c), <<1, 2>>)
        b1 == Neg(Add(R(1), omega_c))
        b2 == Mul(Add(R(1), omega_c), <<1, 2>>)
        a0 == Add(R(1), alpha)
        a1 == Mul(R(-2), omega_c)
        a2 == Sub(R(1), alpha)
    IN
        Coefficients(Div(a1, a0), Div(a2, a0), Div(b0, a0), Div(b1, a0), Div(b2, a0))

\* Type::BandPass
BandPass_f32(omega, q_value) ==
    LET
        omega_s == Sin(omega)
        omega_c == Cos(omega)
        alpha == Div(omega_s, Mul(R(2), q_value))
        b0 == Div(omega_s, R(2))
        b1 == R(0)
        b2 == Neg(Div(omega_s, R(2)))
        a0 == Add(R(1), alpha)
        a1 == Mul(R(-2), omega_c)
        a2 == Sub(R(1), alpha)
        div == Div(R(1), a0)
    IN
        Coefficients(Mul(a1, div), Mul(a2, div), Mul(b0, div), Mul(b1, div), Mul(b2, div))

\* Type::Notch
Notch_f32(omega, q_value) ==
    LET
        omega_s == Sin(omega)
        omega_c == Cos(omega)
        alpha == Div(omega_s, Mul(R(2), q_value))
        b0 == R(1)
        b1 == Mul(R(-2), omega_c)
        b2 == R(1)
        a0 == Add(R(1), alpha)
        a1 == Mul(R(-2), omega_c)
        a2 == Sub(R(1), alpha)
    IN
        Coefficients(Div(a1, a0), Div(a2, a0), Div(b0, a0), Div(b1, a0), Div(b2, a0))

\* AllPass_f32 with b0 and b2 exchanged
AllPass_f32_NumeratorNotReversed(omega, q_value) ==
    LET
        omega_s == Sin(omega)
        omega_c == Cos(omega)
        alpha == Div(omega_s, Mul(R(2), q_value))
        b0 == Add(R(1), alpha)
        b1 == Mul(R(-2), omega_c)
        b2 == Sub(R(1), alpha)
        a0 == Add(R(1), alpha)
        a1 == Mul(R(-2), omega_c)
        a2 == Sub(R(1), alpha)
    IN
        Coefficients(Div(a1, a0), Div(a2, a0), Div(b0, a0), Div(b1, a0), Div(b2, a0))

\* Type::AllPass
AllPass_f32(omega, q_value) ==
    LET
        omega_s == Sin(omega)
        omega_c == Cos(omega)
        alpha == Div(omega_s, Mul(R(2), q_value))
        b0 == Sub(R(1), alpha)
        b1 == Mul(R(-2), omega_c)
        b2 == Add(R(1), alpha)
        a0 == Add(R(1), alpha)
        a1 == Mul(R(-2), omega_c)
        a2 == Sub(R(1), alpha)
    IN
        Coefficients(Div(a1, a0), Div(a2, a0), Div(b0, a0), Div(b1, a0), Div(b2, a0))

\* Type::LowShelf(db_gain)
LowShelf_f32(omega, q_value, db_gain) ==
    LET
        a == Pow(R(10), Div(db_gain, R(40)))
        omega_s == Sin(omega)
        omega_c == Cos(omega)
        alpha == Div(omega_s, Mul(R(2), q_value))
        b0 == Mul(a, Add(Sub(Add(a, R(1)), Mul(Sub(a, R(1)), omega_c)), Mul(Mul(R(2), alpha), Sqrt(a))))
        b1 == Mul(Mul(R(2), a), Sub(Sub(a, R(1)), Mul(Add(a, R(1)), omega_c)))
        b2 == Mul(a, Sub(Sub(Add(a, R(1)), Mul(Sub(a, R(1)), omega_c)), Mul(Mul(R(2), alpha), Sqrt(a))))
        a0 == Add(Add(Add(a, R(1)), Mul(Sub(a, R(1)), omega_c)), Mul(Mul(R(2), alpha), Sqrt(a)))
        a1 == Mul(R(-2), Add(Sub(a, R(1)), Mul(Add(a, R(1)), omega_c)))
        a2 == Sub(Add(Add(a, R(1)), Mul(Sub(a, R(1)), omega_c)), Mul(Mul(R(2), alpha), Sqrt(a)))
    IN
        Coefficients(Div(a1, a0), Div(a2, a0), Div(b0, a0), Div(b1, a0), Div(b2, a0))

\* Type::HighShelf(db_gain)
HighShelf_f32(omega, q_value, db_gain) ==
    LET
        a == Pow(R(10), Div(db_gain, R(40)))
        omega_s == Sin(omega)
        omega_c == Cos(omega)
        alpha == Div(omega_s, Mul(R(2), q_value))
        b0 == Mul(a, Add(Add(Add(a, R(1)), Mul(Sub(a, R(1)), omega_c)), Mul(Mul(R(2), alpha), Sqrt(a))))
        b1 == Mul(Mul(R(-2), a), Add(Sub(a, R(1)), Mul(Add(a, R(1)), omega_c)))
        b2 == Mul(a, Sub(Add(Add(a, R(1)), Mul(Sub(a, R(1)), omega_c)), Mul(Mul(R(2), alpha), Sqrt(a))))
        a0 == Add(Sub(Add(a, R(1)), Mul(Sub(a, R(1)), omega_c)), Mul(Mul(R(2), alpha), Sqrt(a)))
        a1 == Mul(R(2), Sub(Sub(a, R(1)), Mul(Add(a, R(1)), omega_c)))
        a2 == Sub(Sub(Add(a, R(1)), Mul(Sub(a, R(1)), omega_c)), Mul(Mul(R(2), alpha), Sqrt(a)))
    IN
        Coefficients(Div(a1, a0), Div(a2, a0), Div(b0, a0), Div(b1, a0), Div(b2, a0))

\* Type::PeakingEQ(db_gain)
PeakingEQ_f32(omega, q_value, db_gain) ==
    LET
        a == Pow(R(10), Div(db_gain, R(40)))
        omega_s == Sin(omega)
        omega_c == Cos(omega)
        alpha == Div(omega_s, Mul(R(2), q_value))
        b0 == Add(R(1), Mul(alpha, a))
        b1 == Mul(R(-2), omega_c)
        b2 == Sub(R(1), Mul(alpha, a))
        a0 == Add(R(1), Div(alpha, a))
        a1 == Mul(R(-2), omega_c)
        a2 == Sub(R(1), Div(alpha, a))
    IN
        Coefficients(Div(a1, a0), Div(a2, a0), Div(b0, a0), Div(b1, a0), Div(b2, a0))

\* Derive_f32 with the SinglePoleLowPass arm running the Q-dependent LowPass formulas
Derive_f32_SinglePoleUsesQ(filter, omega, q_value) ==
    CASE filter[1] = "SinglePoleLowPassApprox" -> SinglePoleLowPassApprox_f32(omega)
      [] filter[1] = "SinglePoleLowPass" -> LowPass_f32(omega, q_value)
      [] filter[1] = "LowPass" -> LowPass_f32(omega, q_value)
      [] filter[1] = "HighPass" -> HighPass_f32(omega, q_value)
      [] filter[1] = "BandPass" -> BandPass_f32(omega, q_value)
      [] filter[1] = "Notch" -> Notch_f32(omega, q_value)
      [] filter[1] = "AllPass" -> AllPass_f32(omega, q_value)
      [] filter[1] = "LowShelf" -> LowShelf_f32(omega, q_value, filter[2])
      [] filter[1] = "HighShelf" -> HighShelf_f32(omega, q_value, filter[2])
      [] filter[1] = "PeakingEQ" -> PeakingEQ_f32(omega, q_value, filter[2])

\* the match on the filter type
Derive_f32(filter, omega, q_value) ==
    CASE filter[1] = "SinglePoleLowPassApprox" -> SinglePoleLowPassApprox_f32(omega)
      [] filter[1] = "SinglePoleLowPass" -> SinglePoleLowPass_f32(omega)
      [] filter[1] = "LowPass" -> LowPass_f32(omega, q_value)
      [] filter[1] = "HighPass" -> HighPass_f32(omega, q_value)
      [] filter[1] = "BandPass" -> BandPass_f32(omega, q_value)
      [] filter[1] = "Notch" -> Notch_f32(omega, q_value)
      [] filter[1] = "AllPass" -> AllPass_f32(omega, q_value)
      [] filter[1] = "LowShelf" -> LowShelf_f32(omega, q_value, filter[2])
      [] filter[1] = "HighShelf" -> HighShelf_f32(omega, q_value, filter[2])
      [] filter[1] = "PeakingEQ" -> PeakingEQ_f32(omega, q_value, filter[2])

\* Coefficients::<f32>::from_params(filter, fs, f0, q_value)
from_params_f32(filter, fs, f0, q_value) ==
    LET v == Validate_f32(fs, f0, q_value)
    IN  IF v # "Valid" THEN Err(v)
        ELSE Ok(Derive_f32(filter, Omega_f32(fs, f0), q_value))

(***************************************************************************)
(* impl Coefficients<f64>                                                   *)
(***************************************************************************)
\* Validate_f64 with 2.0 * f0 >= fs instead of 2.0 * f0 > fs
Validate_f64_ExclusiveNyquist(fs, f0, q_value) ==
    IF Le(fs, Mul(R(2), f0)) THEN "OutsideNyquist"
    ELSE IF Lt(q_value, R(0)) THEN "NegativeQ"
    ELSE "Valid"

\* the two validation checks of from_params, in source order
Validate_f64(fs, f0, q_value) ==
    IF Gt(Mul(R(2), f0), fs) THEN "OutsideNyquist"
    ELSE IF Lt(q_value, R(0)) THEN "NegativeQ"
    ELSE "Valid"

\* let omega = 2.0 * PI * f0.hz() / fs.hz()
Omega_f64(fs, f0) == Div(Mul(Mul(R(2), PI), f0), fs)

\* Type::SinglePoleLowPassApprox
SinglePoleLowPassApprox_f64(omega) ==
    LET alpha == Div(omega, Add(omega, R(1)))
    IN  Coefficients(Sub(alpha, R(1)), R(0), alpha, R(0), R(0))

\* Type::SinglePoleLowPass
SinglePoleLowPass_f64(omega) ==
    LET omega_t == Tan(Div(omega, R(2)))
        a0 == Add(R(1), omega_t)
    IN  Coefficients(Div(Sub(omega_t, R(1)), a0), R(0), Div(omega_t, a0), Div(omega_t, a0), R(0))

\* LowPass_f64 returning the raw b1 instead of b1 * div
LowPass_f64_B1NotNormalized(omega, q_value) ==
    LET
        omega_s == Sin(omega)
        omega_c == Cos(omega)
        alpha == Div(omega_s, Mul(R(2), q_value))
        b0 == Mul(Sub(R(1), omega_c), <<1, 2>>)
        b1 == Sub(R(1), omega_c)
        b2 == Mul(Sub(R(1), omega_c), <<1, 2>>)
        a0 == Add(R(1), alpha)
        a1 == Mul(R(-2), omega_c)
        a2 == Sub(R(1), alpha)
        div == Div(R(1), a0)
    IN
        Coefficients(Mul(a1, div), Mul(a2, div), Mul(b0, div), b1, Mul(b2, div))

\* Type::LowPass
LowPass_f64(omega, q_value) ==
    LET
        omega_s == Sin(omega)
        omega_c == Cos(omega)
        alpha == Div(omega_s, Mul(R(2), q_value))
        b0 == Mul(Sub(R(1), omega_c), <<1, 2>>)
        b1 == Sub(R(1), omega_c)
        b2 == Mul(Sub(R(1), omega_c), <<1, 2>>)
        a0 == Add(R(1), alpha)
        a1 == Mul(R(-2), omega_c)
        a2 == Sub(R(1), alpha)
        div == Div(R(1), a0)
    IN
        Coefficients(Mul(a1, div), Mul(a2, div), Mul(b0, div), Mul(b1, div), Mul(b2, div))

\* Type::HighPass
HighPass_f64(omega, q_value) ==
    LET
        omega_s == Sin(omega)
        omega_c == Cos(omega)
        alpha == Div(omega_s, Mul(R(2), q_value))
        b0 == Mul(Add(R(1), omega_c), <<1, 2>>)
        b1 == Neg(Add(R(1), omega_c))
        b2 == Mul(Add(R(1), omega_c), <<1, 2>>)
        a0 == Add(R(1), alpha)
        a1 == Mul(R(-2), omega_c)
        a2 == Sub(R(1), alpha)
        div == Div(R(1), a0)
    IN
        Coefficients(Mul(a1, div), Mul(a2, div), Mul(b0, div), Mul(b1, div), Mul(b2, div))

\* Type::Notch
Notch_f64(omega, q_value) ==
    LET
        omega_s == Sin(omega)
        omega_c == Cos(omega)
        alpha == Div(omega_s, Mul(R(2), q_value))
        b0 == R(1)
        b1 == Mul(R(-2), omega_c)
        b2 == R(1)
        a0 == Add(R(1), alpha)
        a1 == Mul(R(-2), omega_c)
        a2 == Sub(R(1), alpha)
        div == Div(R(1), a0)
    IN
        Coefficients(Mul(a1, div), Mul(a2, div), Mul(b0, div), Mul(b1, div), Mul(b2, div))

\* Type::BandPass
BandPass_f64(omega, q_value) ==
    LET
        omega_s == Sin(omega)
        omega_c == Cos(omega)
        alpha == Div(omega_s, Mul(R(2), q_value))
        b0 == Div(omega_s, R(2))
        b1 == R(0)
        b2 == Neg(Div(omega_s, R(2)))
        a0 == Add(R(1), alpha)
        a1 == Mul(R(-2), omega_c)
        a2 == Sub(R(1), alpha)
        div == Div(R(1), a0)
    IN
        Coefficients(Mul(a1, div), Mul(a2, div), Mul(b0, div), Mul(b1, div), Mul(b2, div))

\* Type::AllPass
AllPass_f64(omega, q_value) ==
    LET
        omega_s == Sin(omega)
        omega_c == Cos(omega)
        alpha == Div(omega_s, Mul(R(2), q_value))
        b0 == Sub(R(1), alpha)
        b1 == Mul(R(-2), omega_c)
        b2 == Add(R(1), alpha)
        a0 == Add(R(1), alpha)
        a1 == Mul(R(-2), omega_c)
        a2 == Sub(R(1), alpha)
    IN
        Coefficients(Div(a1, a0), Div(a2, a0), Div(b0, a0), Div(b1, a0), Div(b2, a0))

\* LowShelf_f64 with a1 = -2((A-1) - (A+1)cos) instead of -2((A-1) + (A+1)cos)
LowShelf_f64_A1SignSlip(omega, q_value, db_gain) ==
    LET
        a == Pow(R(10), Div(db_gain, R(40)))
        omega_s == Sin(omega)
        omega_c == Cos(omega)
        alpha == Div(omega_s, Mul(R(2), q_value))
        b0 == Mul(a, Add(Sub(Add(a, R(1)), Mul(Sub(a, R(1)), omega_c)), Mul(Mul(R(2), alpha), Sqrt(a))))
        b1 == Mul(Mul(R(2), a), Sub(Sub(a, R(1)), Mul(Add(a, R(1)), omega_c)))
        b2 == Mul(a, Sub(Sub(Add(a, R(1)), Mul(Sub(a, R(1)), omega_c)), Mul(Mul(R(2), alpha), Sqrt(a))))
        a0 == Add(Add(Add(a, R(1)), Mul(Sub(a, R(1)), omega_c)), Mul(Mul(R(2), alpha), Sqrt(a)))
        a1 == Mul(R(-2), Sub(Sub(a, R(1)), Mul(Add(a, R(1)), omega_c)))
        a2 == Sub(Add(Add(a, R(1)), Mul(Sub(a, R(1)), omega_c)), Mul(Mul(R(2), alpha), Sqrt(a)))
    IN
        Coefficients(Div(a1, a0), Div(a2, a0), Div(b0, a0), Div(b1, a0), Div(b2, a0))

\* Type::LowShelf(db_gain)
LowShelf_f64(omega, q_value, db_gain) ==
    LET
        a == Pow(R(10), Div(db_gain, R(40)))
        omega_s == Sin(omega)
        omega_c == Cos(omega)
        alpha == Div(omega_s, Mul(R(2), q_value))
        b0 == Mul(a, Add(Sub(Add(a, R(1)), Mul(Sub(a, R(1)), omega_c)), Mul(Mul(R(2), alpha), Sqrt(a))))
        b1 == Mul(Mul(R(2), a), Sub(Sub(a, R(1)), Mul(Add(a, R(1)), omega_c)))
        b2 == Mul(a, Sub(Sub(Add(a, R(1)), Mul(Sub(a, R(1)), omega_c)), Mul(Mul(R(2), alpha), Sqrt(a))))
        a0 == Add(Add(Add(a, R(1)), Mul(Sub(a, R(1)), omega_c)), Mul(Mul(R(2), alpha), Sqrt(a)))
        a1 == Mul(R(-2), Add(Sub(a, R(1)), Mul(Add(a, R(1)), omega_c)))
        a2 == Sub(Add(Add(a, R(1)), Mul(Sub(a, R(1)), omega_c)), Mul(Mul(R(2), alpha), Sqrt(a)))
    IN
        Coefficients(Div(a1, a0), Div(a2, a0), Div(b0, a0), Div(b1, a0), Div(b2, a0))

\* Type::HighShelf(db_gain)
HighShelf_f64(omega, q_value, db_gain) ==
    LET
        a == Pow(R(10), Div(db_gain, R(40)))
        omega_s == Sin(omega)
        omega_c == Cos(omega)
        alpha == Div(omega_s, Mul(R(2), q_value))
        b0 == Mul(a, Add(Add(Add(a, R(1)), Mul(Sub(a, R(1)), omega_c)), Mul(Mul(R(2), alpha), Sqrt(a))))
        b1 == Mul(Mul(R(-2), a), Add(Sub(a, R(1)), Mul(Add(a, R(1)), omega_c)))
        b2 == Mul(a, Sub(Add(Add(a, R(1)), Mul(Sub(a, R(1)), omega_c)), Mul(Mul(R(2), alpha), Sqrt(a))))
        a0 == Add(Sub(Add(a, R(1)), Mul(Sub(a, R(1)), omega_c)), Mul(Mul(R(2), alpha), Sqrt(a)))
        a1 == Mul(R(2), Sub(Sub(a, R(1)), Mul(Add(a, R(1)), omega_c)))
        a2 == Sub(Sub(Add(a, R(1)), Mul(Sub(a, R(1)), omega_c)), Mul(Mul(R(2), alpha), Sqrt(a)))
    IN
        Coefficients(Div(a1, a0), Div(a2, a0), Div(b0, a0), Div(b1, a0), Div(b2, a0))

\* PeakingEQ_f64 with b2 = 1 + alpha * a instead of 1 - alpha * a
PeakingEQ_f64_B2SignSlip(omega, q_value, db_gain) ==
    LET
        a == Pow(R(10), Div(db_gain, R(40)))
        omega_s == Sin(omega)
        omega_c == Cos(omega)
        alpha == Div(omega_s, Mul(R(2), q_value))
        b0 == Add(R(1), Mul(alpha, a))
        b1 == Mul(R(-2), omega_c)
        b2 == Add(R(1), Mul(alpha, a))
        a0 == Add(R(1), Div(alpha, a))
        a1 == Mul(R(-2), omega_c)
        a2 == Sub(R(1), Div(alpha, a))
    IN
        Coefficients(Div(a1, a0), Div(a2, a0), Div(b0, a0), Div(b1, a0), Div(b2, a0))

\* Type::PeakingEQ(db_gain)
PeakingEQ_f64(omega, q_value, db_gain) ==
    LET
        a == Pow(R(10), Div(db_gain, R(40)))
        omega_s == Sin(omega)
        omega_c == Cos(omega)
        alpha == Div(omega_s, Mul(R(2), q_value))
        b0 == Add(R(1), Mul(alpha, a))
        b1 == Mul(R(-2), omega_c)
        b2 == Sub(R(1), Mul(alpha, a))
        a0 == Add(R(1), Div(alpha, a))
        a1 == Mul(R(-2), omega_c)
        a2 == Sub(R(1), Div(alpha, a))
    IN
        Coefficients(Div(a1, a0), Div(a2, a0), Div(b0, a0), Div(b1, a0), Div(b2, a0))

\* the match on the filter type
Derive_f64(filter, omega, q_value) ==
    CASE filter[1] = "SinglePoleLowPassApprox" -> SinglePoleLowPassApprox_f64(omega)
      [] filter[1] = "SinglePoleLowPass" -> SinglePoleLowPass_f64(omega)
      [] filter[1] = "LowPass" -> LowPass_f64(omega, q_value)
      [] filter[1] = "HighPass" -> HighPass_f64(omega, q_value)
      [] filter[1] = "BandPass" -> BandPass_f64(omega, q_value)
      [] filter[1] = "Notch" -> Notch_f64(omega, q_value)
      [] filter[1] = "AllPass" -> AllPass_f64(omega, q_value)
      [] filter[1] = "LowShelf" -> LowShelf_f64(omega, q_value, filter[2])
      [] filter[1] = "HighShelf" -> HighShelf_f64(omega, q_value, filter[2])
      [] filter[1] = "PeakingEQ" -> PeakingEQ_f64(omega, q_value, filter[2])

\* Coefficients::<f64>::from_params(filter, fs, f0, q_value)
from_params_f64(filter, fs, f0, q_value) ==
    LET v == Validate_f64(fs, f0, q_value)
    IN  IF v # "Valid" THEN Err(v)
        ELSE Ok(Derive_f64(filter, Omega_f64(fs, f0), q_value))

(***************************************************************************)
(* The caller: one set of design parameters, handed to both precisions.    *)
(***************************************************************************)
\* the gains in decibels carried by LowShelf, HighShelf and PeakingEQ;
\* multiples of 80 dB keep A = 10^(dB/40) and sqrt(A) rational
DbGains == {R(-80), R(0), R(80)}

\* the values of Type<DBGain>
Filters == {<<k>> : k \in PlainKinds} \cup {<<k, g>> : k \in GainKinds, g \in DbGains}

\* fs.hz(): positive sampling frequencies
SamplingFreqs == {R(n) : n \in 1..MaxFs}

\* f0.hz(): non-negative cutoff frequencies in steps of 1/2 Hz, up to above MaxFs/2
CutoffFreqs == {Mk(k, 2) : k \in 0..(MaxFs + 1)}

\* q_value: negative, zero and positive
QValues == {Mk(k, 2) : k \in (-1)..MaxQHalves}

\* no call made yet
None == [tag |-> "None"]

VARIABLES filter, fs, f0, q_value, result_f32, result_f64

vars == <<filter, fs, f0, q_value, result_f32, result_f64>>

Init ==
    /\ filter \in Filters
    /\ fs \in SamplingFreqs
    /\ f0 \in CutoffFreqs
    /\ q_value \in QValues
    /\ result_f32 = None
    /\ result_f64 = None

\* let coeffs = Coefficients::<f32>::from_params(filter, fs, f0, q_value)
CallF32 ==
    /\ result_f32 = None
    /\ result_f32' = from_params_f32(filter, fs, f0, q_value)
    /\ UNCHANGED <<filter, fs, f0, q_value, result_f64>>

\* let coeffs = Coefficients::<f64>::from_params(filter, fs, f0, q_value)
CallF64 ==
    /\ result_f64 = None
    /\ result_f64' = from_params_f64(filter, fs, f0, q_value)
    /\ UNCHANGED <<filter, fs, f0, q_value, result_f32>>

Next == CallF32 \/ CallF64

Spec == Init /\ [][Next]_vars

(***************************************************************************)
(* Vocabulary of the properties, stated on the inputs and the results      *)
(* without going through the arithmetic of the implementation.             *)
(***************************************************************************)
\* both instantiations have returned
BothDone == result_f32 # None /\ result_f64 # None

\* the results returned so far
Results == {result_f32, result_f64} \ {None}

\* 2 * f0 > fs, on the integers of the two fractions
AboveNyquist == 2 * f0[1] * fs[2] > fs[1] * f0[2]

\* f0 = fs / 2 exactly
AtNyquist == 2 * f0[1] * fs[2] = fs[1] * f0[2]

QNegative == q_value[1] < 0

QZero == q_value[1] = 0

QPositive == q_value[1] > 0

\* a coefficient that is a number: neither NaN nor an infinity
Defined(x) == x[2] > 0

AllDefined(c) == Defined(c.a1) /\ Defined(c.a2) /\ Defined(c.b0) /\ Defined(c.b1) /\ Defined(c.b2)

(***************************************************************************)
(* C1                                                                      *)
(***************************************************************************)
\* C1: the Nyquist check comes first and wins: whenever 2*f0 > fs, every
\* returned result is Err(OutsideNyquist), for every filter and every q_value,
\* negative ones included; never Err(NegativeQ), never Ok.
C1_NyquistCheckedFirst ==
    AboveNyquist => \A r \in Results : r = Err("OutsideNyquist")

\* the scenario fs = 1000, f0 = 600 (here in units of 200 Hz) with a negative Q
C1_Witness ==
    /\ BothDone
    /\ fs = R(5) /\ f0 = R(3) /\ QNegative
    /\ result_f32 = Err("OutsideNyquist") /\ result_f64 = Err("OutsideNyquist")

C3_AtOrAboveNyquistFails ==
    (AtNyquist \/ AboveNyquist) => \A r \in Results : r = Err("OutsideNyquist")

C5_BoundaryResultsDefined ==
    \A r \in Results :
        (r.tag = "Ok" /\ (QZero \/ f0 = R(0) \/ AtNyquist)) => AllDefined(r.coeffs)

(***************************************************************************)
(* C6                                                                      *)
(***************************************************************************)
\* the reference formulas: omega, alpha and A
RefOmega == Div(Mul(Mul(R(2), PI), f0), fs)

RefAlpha == Div(Sin(RefOmega), Mul(R(2), q_value))

RefA == Pow(R(10), Div(filter[2], R(40)))

\* the raw table row <<b0, b1, b2, a0, a1, a2>> of a second-order filter
RefRow ==
    LET c == Cos(RefOmega)
        s == Sin(RefOmega)
        al == RefAlpha
        one == R(1)
        two == R(2)
    IN  CASE filter[1] = "LowPass" ->
                <<Div(Sub(one, c), two), Sub(one, c), Div(Sub(one, c), two),
                  Add(one, al), Neg(Mul(two, c)), Sub(one, al)>>
          [] filter[1] = "HighPass" ->
                <<Div(Add(one, c), two), Neg(Add(one, c)), Div(Add(one, c), two),
                  Add(one, al), Neg(Mul(two, c)), Sub(one, al)>>
          [] filter[1] = "BandPass" ->
                <<Div(s, two), R(0), Neg(Div(s, two)),
                  Add(one, al), Neg(Mul(two, c)), Sub(one, al)>>
          [] filter[1] = "Notch" ->
                <<one, Neg(Mul(two, c)), one,
                  Add(one, al), Neg(Mul(two, c)), Sub(one, al)>>
          [] filter[1] = "AllPass" ->
                <<Sub(one, al), Neg(Mul(two, c)), Add(one, al),
                  Add(one, al), Neg(Mul(two, c)), Sub(one, al)>>
          [] filter[1] = "LowShelf" ->
                LET A == RefA
                    p == Add(A, one)
                    m == Sub(A, one)
                    r == Mul(Mul(two, al), Sqrt(A))
                IN  <<Mul(A, Add(Sub(p, Mul(m, c)), r)),
                      Mul(Mul(two, A), Sub(m, Mul(p, c))),
                      Mul(A, Sub(Sub(p, Mul(m, c)), r)),
                      Add(Add(p, Mul(m, c)), r),
                      Neg(Mul(two, Add(m, Mul(p, c)))),
                      Sub(Add(p, Mul(m, c)), r)>>
          [] filter[1] = "HighShelf" ->
                LET A == RefA
                    p == Add(A, one)
                    m == Sub(A, one)
                    r == Mul(Mul(two, al), Sqrt(A))
                IN  <<Mul(A, Add(Add(p, Mul(m, c)), r)),
                      Neg(Mul(Mul(two, A), Add(m, Mul(p, c)))),
                      Mul(A, Sub(Add(p, Mul(m, c)), r)),
                      Add(Sub(p, Mul(m, c)), r),
                      Mul(two, Sub(m, Mul(p, c))),
                      Sub(Sub(p, Mul(m, c)), r)>>
          [] filter[1] = "PeakingEQ" ->
                LET A == RefA
                IN  <<Add(one, Mul(al, A)), Neg(Mul(two, c)), Sub(one, Mul(al, A)),
                      Add(one, Div(al, A)), Neg(Mul(two, c)), Sub(one, Div(al, A))>>

\* the reference coefficient set of the filter
RefCoefficients ==
    CASE filter[1] = "SinglePoleLowPassApprox" ->
            LET al == Div(RefOmega, Add(RefOmega, R(1)))
            IN  [a1 |-> Sub(al, R(1)), a2 |-> R(0), b0 |-> al, b1 |-> R(0), b2 |-> R(0)]
      [] filter[1] = "SinglePoleLowPass" ->
            LET wt == Tan(Div(RefOmega, R(2)))
            IN  [a1 |-> Div(Sub(wt, R(1)), Add(R(1), wt)), a2 |-> R(0),
                 b0 |-> Div(wt, Add(R(1), wt)), b1 |-> Div(wt, Add(R(1), wt)), b2 |-> R(0)]
      [] OTHER ->
            LET row == RefRow
            IN  [a1 |-> Div(row[5], row[4]), a2 |-> Div(row[6], row[4]),
                 b0 |-> Div(row[1], row[4]), b1 |-> Div(row[2], row[4]),
                 b2 |-> Div(row[3], row[4])]

\* C6: every successful call returns, for each of the ten filters, the
\* reference formulas of that filter: the single-pole formulas, or the table
\* row's raw a1, a2, b0, b1, b2 each divided by the row's a0.
C6_MatchesReferenceFormulas ==
    \A r \in Results : r.tag = "Ok" => r.coeffs = RefCoefficients

\* a shelf filter with a gain, a positive Q and a cutoff inside the band
C6_Witness ==
    /\ BothDone
    /\ filter = <<"HighShelf", R(80)>> /\ QPositive /\ f0 # R(0) /\ ~AtNyquist
    /\ result_f32.tag = "Ok" /\ result_f64.tag = "Ok"
    /\ AllDefined(result_f32.coeffs)
    /\ result_f32.coeffs = RefCoefficients

(***************************************************************************)
(* C7                                                                      *)
(***************************************************************************)
\* C7: for the same filter, fs, f0 and q_value the f32 and the f64
\* instantiation return the same outcome kind and, on Ok, the same
\* coefficients (rounding aside, which the exact arithmetic leaves out).
C7_PrecisionsAgree ==
    BothDone =>
        /\ result_f32.tag = result_f64.tag
        /\ result_f32.tag = "Err" => result_f32.err = result_f64.err
        /\ result_f32.tag = "Ok" => result_f32.coeffs = result_f64.coeffs

\* a filter the two instantiations normalize differently (x / a0 in f32,
\* x * (1 / a0) in f64), on an input with a non-trivial a0
C7_Witness ==
    /\ BothDone
    /\ filter = <<"LowPass">> /\ QPositive /\ f0 # R(0) /\ ~AtNyquist
    /\ result_f32.tag = "Ok" /\ result_f64.tag = "Ok"
    /\ AllDefined(result_f64.coeffs)
    /\ result_f64.coeffs.a2 # R(1)

(***************************************************************************)
(* C8                                                                      *)
(***************************************************************************)
\* C8: every successful AllPass derivation with q_value > 0 has the numerator
\* equal to the reversed normalized denominator: b0 = a2, b1 = a1, b2 = 1.
C8_AllPassSymmetry ==
    \A r \in Results :
        (filter[1] = "AllPass" /\ QPositive /\ r.tag = "Ok") =>
            /\ r.coeffs.b0 = r.coeffs.a2
            /\ r.coeffs.b1 = r.coeffs.a1
            /\ r.coeffs.b2 = R(1)

C8_Witness ==
    /\ BothDone
    /\ filter[1] = "AllPass" /\ QPositive
    /\ result_f32.tag = "Ok" /\ result_f64.tag = "Ok"
    /\ result_f32.coeffs.a2 \notin {R(1), R(0)}
    /\ result_f32.coeffs.a1 # R(0)
    /\ result_f32.coeffs.b0 = result_f32.coeffs.a2

(***************************************************************************)
(* C9                                                                      *)
(***************************************************************************)
\* C9: PeakingEQ with a gain of 0 dB and q_value > 0 is the identity transfer
\* function: the numerator equals the normalized denominator, b0 = 1,
\* b1 = a1, b2 = a2.
C9_PeakingEQUnityGain ==
    \A r \in Results :
        (filter = <<"PeakingEQ", R(0)>> /\ QPositive /\ r.tag = "Ok") =>
            /\ r.coeffs.b0 = R(1)
            /\ r.coeffs.b1 = r.coeffs.a1
            /\ r.coeffs.b2 = r.coeffs.a2

C9_Witness ==
    /\ BothDone
    /\ filter = <<"PeakingEQ", R(0)>> /\ QPositive
    /\ result_f32.tag = "Ok" /\ result_f64.tag = "Ok"
    /\ result_f64.coeffs.a2 \notin {R(1), R(0)}
    /\ result_f64.coeffs.a1 # R(0)
    /\ result_f64.coeffs.b2 = result_f64.coeffs.a2

(***************************************************************************)
(* C10                                                                     *)
(***************************************************************************)
\* C10: the two single-pole filters are Q-independent: with the same fs and
\* f0, every other non-negative q_value returns the identical result.
C10_SinglePoleQIndependent ==
    (filter[1] \in {"SinglePoleLowPassApprox", "SinglePoleLowPass"} /\ ~QNegative) =>
        \A q2 \in QValues :
            ~(q2[1] < 0) =>
                /\ result_f32 # None => result_f32 = from_params_f32(filter, fs, f0, q2)
                /\ result_f64 # None => result_f64 = from_params_f64(filter, fs, f0, q2)

C10_Witness ==
    /\ BothDone
    /\ filter = <<"SinglePoleLowPass">> /\ QPositive /\ f0 # R(0) /\ ~AboveNyquist
    /\ result_f32.tag = "Ok" /\ result_f64.tag = "Ok"
    /\ result_f32 = from_params_f32(filter, fs, f0, R(0))
    /\ result_f32.coeffs.b0 # R(0)

====
